---------------------------- MODULE Spec2Model ----------------------------
(***************************************************************************)
(* Model of the markdown corpus builder of repo_analyst                    *)
(* (adapters/git_platform/markdown_builder.py): file collection, priority  *)
(* classification, the size-limited writer and the directory tree; and of  *)
(* the two services that drive it (application/services.py): corpus        *)
(* generation with its mirror, and the paginated repository import.        *)
(*                                                                         *)
(* A string is the sequence of its code points, so that len(), str         *)
(* comparison, Path.suffix and str.lower() are computed character by       *)
(* character.  A path is the sequence of its components (Path.parts).      *)
(***************************************************************************)
EXTENDS Integers, Sequences, FiniteSets, TLC

VARIABLES
  repo_path,          \* parts of the repository root (absolute)
  disk,               \* regular files under the root, in directory-enumeration
                      \* order: sequence of [path |-> root-relative parts, size |-> bytes]
  clock,              \* whole seconds of datetime.utcnow()
  usec,               \* microsecond field of datetime.utcnow() (0 or not)
  exclude_paths,      \* caller-supplied exclude_paths of the call
  max_bytes,          \* caller-supplied budget of the call
  all_files,          \* list given to / returned by _collect_files
  prioritized_files,  \* list returned by _prioritize_files, argument of _write_markdown
  output_path,        \* root-relative parts of the document written
  md_file,            \* the document: sequence of the chunks written to it
  tree,               \* the text returned by _generate_tree
  current_size,       \* local of _write_markdown
  file_count,         \* local of _write_markdown
  is_complete,        \* local of _write_markdown
  pos,                \* position of the for loop in prioritized_files
  read_failed,        \* positions of prioritized_files whose read raised
  ret,                \* (file_count, total_size, is_complete) returned by _write_markdown
  prev,               \* outcome of the previous build_corpus call on this repository
  root_exists,        \* whether the directory repo_path exists
  local_path,         \* Repository.local_path of the repository row (<<>> when blank)
  calls,              \* collaborators generate_corpus has called, in order
  corpora,            \* MarkdownCorpus rows created
  source,             \* rows the Git platform holds, in file order
  page_size,          \* argument of import_repositories
  page,               \* local of import_repositories
  repos,              \* local of import_repositories: the page fetched last
  store,              \* Repository rows in the database, in insertion order
  counts,             \* total_count, created_count, updated_count
  requested,          \* page numbers asked of list_repositories in this run, in order
  runs,               \* import_repositories calls started so far
  phase               \* last operation that ran

vars == << repo_path, disk, clock, usec, exclude_paths, max_bytes, all_files,
           prioritized_files, output_path, md_file, tree, current_size, file_count,
           is_complete, pos, read_failed, ret, prev, root_exists, local_path, calls,
           corpora, source, page_size, page, repos, store, counts, requested, runs,
           phase >>

\* state of MarkdownCorpusService.generate_corpus and of the rows it writes
svc_vars == << local_path, calls, corpora >>

\* state of RepositoryImportService.import_repositories, its source and the database
imp_vars == << source, page_size, page, repos, store, counts, requested, runs >>

---------------------------------------------------------------------------
(* Class constants of MarkdownCorpusBuilder *)

\* File extensions to include (whitelist)
SOURCE_EXTENSIONS ==
  { <<46,112,121>>,                 \* ".py"
    <<46,106,115>>,                 \* ".js"
    <<46,116,115>>,                 \* ".ts"
    <<46,116,115,120>>,             \* ".tsx"
    <<46,106,115,120>>,             \* ".jsx"
    <<46,106,97,118,97>>,           \* ".java"
    <<46,107,116>>,                 \* ".kt"
    <<46,115,99,97,108,97>>,        \* ".scala"
    <<46,103,111>>,                 \* ".go"
    <<46,114,98>>,                  \* ".rb"
    <<46,112,104,112>>,             \* ".php"
    <<46,114,115>>,                 \* ".rs"
    <<46,99>>,                      \* ".c"
    <<46,99,112,112>>,              \* ".cpp"
    <<46,104>>,                     \* ".h"
    <<46,104,112,112>>,             \* ".hpp"
    <<46,99,115>>,                  \* ".cs"
    <<46,120,109,108>>,             \* ".xml"
    <<46,106,115,111,110>>,         \* ".json"
    <<46,121,109,108>>,             \* ".yml"
    <<46,121,97,109,108>>,          \* ".yaml"
    <<46,105,110,105>>,             \* ".ini"
    <<46,116,102>>,                 \* ".tf"
    <<46,115,113,108>>,             \* ".sql"
    <<46,115,104>>,                 \* ".sh"
    <<46,98,97,116>>,               \* ".bat"
    <<46,112,115,49>>,              \* ".ps1"
    <<46,103,114,97,100,108,101>>,  \* ".gradle"
    <<46,109,107>>,                 \* ".mk"
    <<46,109,100>>,                 \* ".md"
    <<46,104,116,109,108>>,         \* ".html"
    <<46,99,115,115>>,              \* ".css"
    <<46,116,111,109,108>>,         \* ".toml"
    <<46,116,120,116>> }            \* ".txt"

\* Priority groups (higher priority = included first)
\* group 1
PRIORITY_GROUP_1 ==
  { <<82,69,65,68,77,69,46,109,100>>,                     \* "README.md"
    <<82,69,65,68,77,69,46,77,68>>,                       \* "README.MD"
    <<114,101,97,100,109,101,46,109,100>>,                \* "readme.md"
    <<76,73,67,69,78,83,69>>,                             \* "LICENSE"
    <<67,72,65,78,71,69,76,79,71,46,109,100>>,            \* "CHANGELOG.md"
    <<67,79,78,84,82,73,66,85,84,73,78,71,46,109,100>> }  \* "CONTRIBUTING.md"

\* group 2
PRIORITY_GROUP_2 ==
  { <<46,112,121>>,        \* ".py"
    <<46,106,115>>,        \* ".js"
    <<46,116,115>>,        \* ".ts"
    <<46,116,115,120>>,    \* ".tsx"
    <<46,106,115,120>>,    \* ".jsx"
    <<46,106,97,118,97>>,  \* ".java"
    <<46,107,116>>,        \* ".kt"
    <<46,103,111>>,        \* ".go"
    <<46,114,115>> }       \* ".rs"

\* group 3
PRIORITY_GROUP_3 ==
  { <<46,121,109,108>>,      \* ".yml"
    <<46,121,97,109,108>>,   \* ".yaml"
    <<46,106,115,111,110>>,  \* ".json"
    <<46,116,111,109,108>>,  \* ".toml"
    <<46,120,109,108>> }     \* ".xml"

\* group 4
PRIORITY_GROUP_4 ==
  { <<46,109,100>>,       \* ".md"
    <<46,116,120,116>>,   \* ".txt"
    <<46,115,104>>,       \* ".sh"
    <<46,115,113,108>> }  \* ".sql"

\* group 5
PRIORITY_GROUP_5 ==
  { <<46,104,116,109,108>>,  \* ".html"
    <<46,99,115,115>> }      \* ".css"

\* Directories to exclude
EXCLUDE_DIRS ==
  { <<46,103,105,116>>,                                  \* ".git"
    <<110,111,100,101,95,109,111,100,117,108,101,115>>,  \* "node_modules"
    <<100,105,115,116>>,                                 \* "dist"
    <<98,117,105,108,100>>,                              \* "build"
    <<116,97,114,103,101,116>>,                          \* "target"
    <<118,101,110,118>>,                                 \* "venv"
    <<46,118,101,110,118>>,                              \* ".venv"
    <<95,95,112,121,99,97,99,104,101,95,95>>,            \* "__pycache__"
    <<46,112,121,116,101,115,116,95,99,97,99,104,101>>,  \* ".pytest_cache"
    <<46,105,100,101,97>>,                               \* ".idea"
    <<46,118,115,99,111,100,101>>,                       \* ".vscode"
    <<118,101,110,100,111,114>>,                         \* "vendor"
    <<99,111,118,101,114,97,103,101>>,                   \* "coverage"
    <<46,99,111,118,101,114,97,103,101>>,                \* ".coverage"
    <<104,116,109,108,99,111,118>>,                      \* "htmlcov"
    <<46,116,111,120>>,                                  \* ".tox"
    <<101,103,103,115>>,                                 \* "eggs"
    <<46,101,103,103,115>> }                             \* ".eggs"

n_root == <<47>>                                                \* "/"
n_srv == <<115,114,118>>                                        \* "srv"
n_build == <<98,117,105,108,100>>                               \* "build"
n_repo == <<114,101,112,111>>                                   \* "repo"
n_README_md == <<82,69,65,68,77,69,46,109,100>>                 \* "README.md"
n_docs == <<100,111,99,115>>                                    \* "docs"
n_src == <<115,114,99>>                                         \* "src"
n_app_py == <<97,112,112,46,112,121>>                           \* "app.py"
n_config_yaml == <<99,111,110,102,105,103,46,121,97,109,108>>   \* "config.yaml"
n_main_rb == <<109,97,105,110,46,114,98>>                       \* "main.rb"
n_node_modules == <<110,111,100,101,95,109,111,100,117,108,101,115>>\* "node_modules"
n_lib == <<108,105,98>>                                         \* "lib"
n_c_py == <<99,46,112,121>>                                     \* "c.py"
n_LICENSE == <<76,73,67,69,78,83,69>>                           \* "LICENSE"
n_Lib_PY == <<76,105,98,46,80,89>>                              \* "Lib.PY"
n_logo_png == <<108,111,103,111,46,112,110,103>>                \* "logo.png"
n_pkg_go == <<112,107,103,46,103,111>>                          \* "pkg.go"

s_corpus == <<95,99,111,114,112,117,115,95>>                    \* "_corpus_"
s_md == <<46,109,100>>                                          \* ".md"
s_stamp == <<50,48,50,52,48,49,48,49,84,48,48,48,48,48>>        \* "20240101T00000"
s_Z == <<90>>                                                   \* "Z"

---------------------------------------------------------------------------
(* Bounds and the input universe *)

MaxLen == 3          \* longest file list given to a function
MaxFiles == 2        \* most files in the repository before the first build
MaxBuilds == 2       \* most build_corpus calls on one repository
MaxRows == 3         \* most rows in the source of an import
MaxPageSize == 3     \* largest page_size given to import_repositories
MaxRuns == 2         \* most import_repositories calls against one source

Roots == { <<n_root, n_srv, n_repo>>, <<n_root, n_build, n_repo>> }

\* root-relative paths of the files a repository may hold, with their content size
Universe ==
  { [path |-> <<n_README_md>>,                size |-> 40],
    [path |-> <<n_docs, n_README_md>>,        size |-> 10],
    [path |-> <<n_src, n_app_py>>,            size |-> 120],
    [path |-> <<n_docs, n_app_py>>,           size |-> 0],
    [path |-> <<n_config_yaml>>,              size |-> 25],
    [path |-> <<n_main_rb>>,                  size |-> 7],
    [path |-> <<n_src, n_node_modules, n_lib, n_c_py>>, size |-> 5],
    [path |-> <<n_LICENSE>>,                  size |-> 300],
    [path |-> <<n_src, n_Lib_PY>>,            size |-> 12],
    [path |-> <<n_logo_png>>,                 size |-> 64] }

Range(s) == { s[k] : k \in 1..Len(s) }

\* the sequences of at most n distinct elements of S
RECURSIVE DistinctSeqs(_, _)
DistinctSeqs(S, n) ==
  IF n = 0 THEN { <<>> }
  ELSE LET shorter == DistinctSeqs(S, n - 1)
       IN  shorter \cup
           { Append(pair[1], pair[2]) :
               pair \in { q \in shorter \X S : q[2] \notin Range(q[1]) } }

---------------------------------------------------------------------------
(* str and pathlib.PurePosixPath *)

\* str.__lt__: lexicographic on code points
StrLess(a, b) ==
  \E k \in 1..Len(b) :
    /\ k <= Len(a) + 1
    /\ \A j \in 1..(k - 1) : a[j] = b[j]
    /\ (k = Len(a) + 1 \/ a[k] < b[k])

\* str.lower() on ASCII
Lower(s) == [k \in 1..Len(s) |-> IF s[k] \in 65..90 THEN s[k] + 32 ELSE s[k]]

\* PurePath.name
Name(p) == p[Len(p)]

\* PurePath.suffix: from the last dot, unless that dot is first or last
Suffix(p) ==
  LET name == Name(p)
      dots == { k \in 1..Len(name) : name[k] = 46 }
  IN  IF dots = {} THEN <<>>
      ELSE LET i == CHOOSE k \in dots : \A m \in dots : m <= k
           IN  IF 1 < i /\ i < Len(name) THEN SubSeq(name, i, Len(name)) ELSE <<>>

\* PurePath.parent
Parent(p) == SubSeq(p, 1, Len(p) - 1)

\* PurePath.relative_to(root), for a path under root
RelativeTo(p, root) == SubSeq(p, Len(root) + 1, Len(p))

\* PurePath.__lt__: lexicographic on the parts
PathLess(p, q) ==
  \E k \in 1..Len(q) :
    /\ k <= Len(p) + 1
    /\ \A j \in 1..(k - 1) : p[j] = q[j]
    /\ (k = Len(p) + 1 \/ StrLess(p[k], q[k]))

\* str(path) of a relative path: the parts joined by "/"
RECURSIVE Str(_)
Str(p) ==
  IF Len(p) = 0 THEN <<46>>
  ELSE IF Len(p) = 1 THEN p[1]
  ELSE Str(Parent(p)) \o <<47>> \o Name(p)

\* sorted(s, key=...): stable; Less compares the keys
Sorted(s, Less(_, _)) ==
  LET Before(j, i) == Less(s[j], s[i]) \/ (~Less(s[i], s[j]) /\ j < i)
      Rank(i) == Cardinality({ j \in 1..Len(s) : Before(j, i) }) + 1
  IN  [k \in 1..Len(s) |-> s[CHOOSE i \in 1..Len(s) : Rank(i) = k]]

---------------------------------------------------------------------------
(* _prioritize_files *)

\* key=lambda x: x.name
NameLess(x, y) == StrLess(Name(x), Name(y))

\* the key without len(x.parts)
DepthNameLess_name(x, y) == StrLess(Name(x), Name(y))

\* key=lambda x: (len(x.parts), x.name)
DepthNameLess(x, y) ==
  Len(x) < Len(y) \/ (Len(x) = Len(y) /\ StrLess(Name(x), Name(y)))

\* the comprehension without "and f not in priority_1"
ByExtension_unguarded(files, group, priority_1) ==
  SelectSeq(files, LAMBDA f : Suffix(f) \in group)

\* the comprehension run over the list from its end
ByExtension_reversed(files, group, priority_1) ==
  LET reversed == [k \in 1..Len(files) |-> files[Len(files) + 1 - k]]
  IN  SelectSeq(reversed, LAMBDA f : Suffix(f) \in group /\ f \notin Range(priority_1))

\* one of the comprehensions "f.suffix in PRIORITY_GROUPS[k] and f not in priority_1"
ByExtension(files, group, priority_1) ==
  SelectSeq(files, LAMBDA f : Suffix(f) \in group /\ f \notin Range(priority_1))

\* the groups extended in the order 1, 3, 2, 4, 5
_prioritize_files_swapped(files) ==
  LET priority_1 == SelectSeq(files, LAMBDA f : Name(f) \in PRIORITY_GROUP_1)
      priority_2 == ByExtension(files, PRIORITY_GROUP_2, priority_1)
      priority_3 == ByExtension(files, PRIORITY_GROUP_3, priority_1)
      priority_4 == ByExtension(files, PRIORITY_GROUP_4, priority_1)
      priority_5 == ByExtension(files, PRIORITY_GROUP_5, priority_1)
      prioritized == Sorted(priority_1, NameLess)
                       \o Sorted(priority_3, DepthNameLess)
                       \o Sorted(priority_2, DepthNameLess)
                       \o Sorted(priority_4, DepthNameLess)
                       \o Sorted(priority_5, DepthNameLess)
      remaining == SelectSeq(files, LAMBDA f : f \notin Range(prioritized))
  IN  prioritized \o Sorted(remaining, DepthNameLess)

\* group 1 taken only from the files whose extension is in no other group
_prioritize_files_ext_first(files) ==
  LET priority_1 == SelectSeq(files, LAMBDA f :
                      /\ Name(f) \in PRIORITY_GROUP_1
                      /\ Suffix(f) \notin PRIORITY_GROUP_2 \cup PRIORITY_GROUP_3
                                         \cup PRIORITY_GROUP_4 \cup PRIORITY_GROUP_5)
      priority_2 == ByExtension(files, PRIORITY_GROUP_2, priority_1)
      priority_3 == ByExtension(files, PRIORITY_GROUP_3, priority_1)
      priority_4 == ByExtension(files, PRIORITY_GROUP_4, priority_1)
      priority_5 == ByExtension(files, PRIORITY_GROUP_5, priority_1)
      prioritized == Sorted(priority_1, NameLess)
                       \o Sorted(priority_2, DepthNameLess)
                       \o Sorted(priority_3, DepthNameLess)
                       \o Sorted(priority_4, DepthNameLess)
                       \o Sorted(priority_5, DepthNameLess)
      remaining == SelectSeq(files, LAMBDA f : f \notin Range(prioritized))
  IN  prioritized \o Sorted(remaining, DepthNameLess)

_prioritize_files(files) ==
  LET priority_1 == SelectSeq(files, LAMBDA f : Name(f) \in PRIORITY_GROUP_1)
      priority_2 == ByExtension(files, PRIORITY_GROUP_2, priority_1)
      priority_3 == ByExtension(files, PRIORITY_GROUP_3, priority_1)
      priority_4 == ByExtension(files, PRIORITY_GROUP_4, priority_1)
      priority_5 == ByExtension(files, PRIORITY_GROUP_5, priority_1)
      prioritized == Sorted(priority_1, NameLess)
                       \o Sorted(priority_2, DepthNameLess)
                       \o Sorted(priority_3, DepthNameLess)
                       \o Sorted(priority_4, DepthNameLess)
                       \o Sorted(priority_5, DepthNameLess)
      remaining == SelectSeq(files, LAMBDA f : f \notin Range(prioritized))
  IN  prioritized \o Sorted(remaining, DepthNameLess)

---------------------------------------------------------------------------
(* Byte sizes: len(text.encode('utf-8')) *)

\* one byte per code point, one more from U+0080, U+0800 and U+10000 on
Utf8Len(s) ==
  Len(s) + Cardinality({ k \in 1..Len(s) : s[k] >= 128 })
         + Cardinality({ k \in 1..Len(s) : s[k] >= 2048 })
         + Cardinality({ k \in 1..Len(s) : s[k] >= 65536 })

\* "# Repository: {name}\n\n" "Generated: {isoformat}\n\n" "## Directory Structure\n\n";
\* datetime.isoformat() has 19 characters when the microsecond is 0, else 26
HeaderSize(root, microsecond) ==
  (14 + Utf8Len(Name(root)) + 2) + (11 + (IF microsecond = 0 THEN 19 ELSE 26) + 2) + 24

SeparatorSize == 2      \* "\n\n" written after the tree
TitleSize == 18         \* "## File Contents\n\n"
NoteSize == 60          \* "\n\n---\n**Note**: Size limit reached. Not all files included.\n"
FenceCloseSize == 6     \* "\n```\n\n"

---------------------------------------------------------------------------
(* _generate_tree *)

\* "  " * n
RECURSIVE Indent(_)
Indent(n) == IF n = 0 THEN <<>> ELSE <<32, 32>> \o Indent(n - 1)

\* rel_path.parent only, instead of every entry of rel_path.parents
TreeDirs_parent(files, root) ==
  { Parent(RelativeTo(f, root)) : f \in { g \in Range(files) : Len(g) - Len(root) > 1 } }

\* every rel_path.parents entry other than Path('.'), over all files
TreeDirs(files, root) ==
  UNION { { SubSeq(RelativeTo(f, root), 1, k) : k \in 1..(Len(f) - Len(root) - 1) } :
            f \in Range(files) }

\* key=lambda x: (len(x.parts), str(x))
DepthStrLess(x, y) ==
  Len(x) < Len(y) \/ (Len(x) = Len(y) /\ StrLess(Str(x), Str(y)))

\* sorted(dirs, ...) of a set whose keys are pairwise different
sorted_dirs(files, root) ==
  LET dirs == TreeDirs(files, root)
  IN  [k \in 1..Cardinality(dirs) |->
         CHOOSE d \in dirs : Cardinality({ e \in dirs : DepthStrLess(e, d) }) = k - 1]

\* key=lambda x: (x.parent, x.name)
ParentNameLess(x, y) ==
  \/ PathLess(Parent(x), Parent(y))
  \/ (Parent(x) = Parent(y) /\ StrLess(Name(x), Name(y)))

\* the list tree_lines
tree_lines(files, root) ==
  LET ds == sorted_dirs(files, root)
      fs == Sorted(files, ParentNameLess)
  IN  << <<96, 96, 96>>, Name(root) \o <<47>> >>
        \o [k \in 1..Len(ds) |-> Indent(Len(ds[k])) \o Name(ds[k]) \o <<47>>]
        \o [k \in 1..Len(fs) |->
              Indent(Len(RelativeTo(fs[k], root))) \o Name(fs[k])]
        \o << <<96, 96, 96>> >>

\* "\n".join(lines)
RECURSIVE Join(_)
Join(lines) ==
  IF Len(lines) = 0 THEN <<>>
  ELSE IF Len(lines) = 1 THEN lines[1]
  ELSE lines[1] \o <<10>> \o Join(Tail(lines))

_generate_tree(files, root) == Join(tree_lines(files, root))

---------------------------------------------------------------------------
(* _write_markdown *)

\* size of the file's content on disk, as read_text returns it
ContentSize(d, root, f) ==
  LET hits == { k \in 1..Len(d) : d[k].path = RelativeTo(f, root) }
  IN  IF hits = {} THEN 0 ELSE d[CHOOSE k \in hits : TRUE].size

\* "### {rel_path}\n\n" "```{suffix[1:]}\n" before the content
SectionHead(f, root) ==
  <<35, 35, 35, 32>> \o Str(RelativeTo(f, root)) \o <<10, 10>>
    \o <<96, 96, 96>> \o (IF Suffix(f) = <<>> THEN <<>> ELSE Tail(Suffix(f))) \o <<10>>

\* len(section.encode('utf-8'))
SectionSize(d, root, f) ==
  Utf8Len(SectionHead(f, root)) + ContentSize(d, root, f) + FenceCloseSize

\* the comparison written with >
LimitReached_gt(size, budget) == size > budget

\* "if current_size >= max_bytes"
LimitReached(size, budget) == size >= budget

\* the comparison written with >=
WouldExceed_ge(size, section_size, budget) == size + section_size >= budget

\* "if current_size + section_size > max_bytes"
WouldExceed(size, section_size, budget) == size + section_size > budget

---------------------------------------------------------------------------
(* _collect_files *)

\* the directories under the root: the proper prefixes of the files' paths
DiskDirs(d) ==
  UNION { { SubSeq(d[k].path, 1, n) : n \in 1..(Len(d[k].path) - 1) } : k \in 1..Len(d) }

\* repo_path.rglob('*'): every directory and every file below the root; the
\* directories in (depth, path) order here, the files in enumeration order
rglob(root, d) ==
  LET dirs == DiskDirs(d)
  IN  [k \in 1..Cardinality(dirs) |->
         root \o (CHOOSE x \in dirs : Cardinality({ e \in dirs : DepthStrLess(e, x) }) = k - 1)]
      \o [k \in 1..Len(d) |-> root \o d[k].path]

\* item.is_dir()
is_dir(item, root, d) == RelativeTo(item, root) \in DiskDirs(d)

\* the test on the name of the directory holding the item only
IsExcluded_parent(item, exclude_dirs) == Name(Parent(item)) \in exclude_dirs

\* "any(excluded in item.parts for excluded in exclude_dirs)"
IsExcluded(item, exclude_dirs) ==
  \E excluded \in exclude_dirs : excluded \in Range(item)

\* the extension compared without lower()
IsEligible_cased(item) ==
  Suffix(item) \in SOURCE_EXTENSIONS \/ Name(item) \in PRIORITY_GROUP_1

\* "item.suffix.lower() in self.SOURCE_EXTENSIONS or item.name in self.PRIORITY_GROUPS[1]"
IsEligible(item) ==
  Lower(Suffix(item)) \in SOURCE_EXTENSIONS \/ Name(item) \in PRIORITY_GROUP_1

_collect_files(root, d, exclude_dirs) ==
  SelectSeq(rglob(root, d),
            LAMBDA item : /\ ~is_dir(item, root, d)
                          /\ ~IsExcluded(item, exclude_dirs)
                          /\ IsEligible(item))

---------------------------------------------------------------------------
(* _generate_output_path *)

\* datetime.utcnow().strftime('%Y%m%dT%H%M%SZ') at second t of the model's clock
Timestamp(t) == s_stamp \o <<48 + t>> \o s_Z

\* "{repo_path.name}_corpus_{timestamp}.md" under the root, as root-relative parts
_generate_output_path(root, t) == << Name(root) \o s_corpus \o Timestamp(t) \o s_md >>

\* positions of files that are not on disk d: reading them raises
Missing(files, root, d) ==
  { k \in 1..Len(files) :
      \A j \in 1..Len(d) : d[j].path # RelativeTo(files[k], root) }

\* bytes of a document: the sizes of its chunks
RECURSIVE SumSizes(_)
SumSizes(chunks) ==
  IF Len(chunks) = 0 THEN 0 ELSE chunks[1].size + SumSizes(Tail(chunks))

Chunk(kind, size, file) == [kind |-> kind, size |-> size, file |-> file]

writer_vars == << md_file, tree, current_size, file_count, is_complete, pos, read_failed,
                 ret >>
call_vars == << repo_path, disk, clock, usec, exclude_paths, max_bytes, all_files,
                prioritized_files, output_path, prev, root_exists, svc_vars, imp_vars >>

\* the document opened whether or not the directory exists
Open_unguarded ==
  /\ phase = "call"
  /\ tree' = _generate_tree(prioritized_files, repo_path)
  /\ \E tree_size \in { Utf8Len(tree') } :
     \E header_size \in { HeaderSize(repo_path, usec) } :
       /\ md_file' = << Chunk("header", header_size, <<>>),
                        Chunk("tree", tree_size, <<>>),
                        Chunk("separator", SeparatorSize, <<>>),
                        Chunk("title", TitleSize, <<>>) >>
       /\ current_size' = header_size + tree_size + TitleSize
  /\ file_count' = 0
  /\ is_complete' = TRUE
  /\ pos' = 1
  /\ read_failed' = {}
  /\ phase' = "loop"
  /\ UNCHANGED << call_vars, ret >>

\* lines 171-191: the locals, then header, tree, separator and section title;
\* open() succeeds only in a directory that exists
Open ==
  /\ phase = "call"
  /\ root_exists
  /\ tree' = _generate_tree(prioritized_files, repo_path)
  /\ \E tree_size \in { Utf8Len(tree') } :
     \E header_size \in { HeaderSize(repo_path, usec) } :
       /\ md_file' = << Chunk("header", header_size, <<>>),
                        Chunk("tree", tree_size, <<>>),
                        Chunk("separator", SeparatorSize, <<>>),
                        Chunk("title", TitleSize, <<>>) >>
       /\ current_size' = header_size + tree_size + TitleSize
  /\ file_count' = 0
  /\ is_complete' = TRUE
  /\ pos' = 1
  /\ read_failed' = {}
  /\ phase' = "loop"
  /\ UNCHANGED << call_vars, ret >>

\* line 175: open() raises OSError, as it does when the directory repo_path does
\* not exist; nothing is created and the exception leaves build_corpus
OpenFails ==
  /\ phase = "call"
  /\ phase' = "raised"
  /\ UNCHANGED << call_vars, writer_vars >>

\* the break taken without "is_complete = False"
LoopLimit_unflagged ==
  /\ phase = "loop" /\ pos <= Len(prioritized_files)
  /\ LimitReached(current_size, max_bytes)
  /\ phase' = "break"
  /\ UNCHANGED << call_vars, md_file, tree, current_size, file_count, is_complete, pos,
                  read_failed, ret >>

\* lines 195-197: the budget is used up before this file
LoopLimit ==
  /\ phase = "loop" /\ pos <= Len(prioritized_files)
  /\ LimitReached(current_size, max_bytes)
  /\ is_complete' = FALSE
  /\ phase' = "break"
  /\ UNCHANGED << call_vars, md_file, tree, current_size, file_count, pos, read_failed, ret >>

\* a failed read recorded as an omission: is_complete cleared
LoopSkip_flagged ==
  /\ phase = "loop" /\ pos <= Len(prioritized_files)
  /\ ~LimitReached(current_size, max_bytes)
  /\ read_failed' = read_failed \cup {pos}
  /\ pos' = pos + 1
  /\ is_complete' = FALSE
  /\ UNCHANGED << call_vars, md_file, tree, current_size, file_count, ret, phase >>

\* lines 199-204, 221-223: reading the file raises; it is skipped
LoopSkip ==
  /\ phase = "loop" /\ pos <= Len(prioritized_files)
  /\ ~LimitReached(current_size, max_bytes)
  /\ read_failed' = read_failed \cup {pos}
  /\ pos' = pos + 1
  /\ UNCHANGED << call_vars, md_file, tree, current_size, file_count, is_complete, ret,
                  phase >>

\* a section that does not fit passed over, the loop going on to the next file
LoopOver_continue ==
  /\ phase = "loop" /\ pos <= Len(prioritized_files)
  /\ ~LimitReached(current_size, max_bytes)
  /\ pos \notin Missing(prioritized_files, repo_path, disk)
  /\ WouldExceed(current_size, SectionSize(disk, repo_path, prioritized_files[pos]), max_bytes)
  /\ is_complete' = FALSE
  /\ pos' = pos + 1
  /\ UNCHANGED << call_vars, md_file, tree, current_size, file_count, read_failed, ret,
                  phase >>

\* lines 199-215: the section of this file does not fit
LoopOver ==
  /\ phase = "loop" /\ pos <= Len(prioritized_files)
  /\ ~LimitReached(current_size, max_bytes)
  /\ pos \notin Missing(prioritized_files, repo_path, disk)
  /\ WouldExceed(current_size, SectionSize(disk, repo_path, prioritized_files[pos]), max_bytes)
  /\ is_complete' = FALSE
  /\ phase' = "break"
  /\ UNCHANGED << call_vars, md_file, tree, current_size, file_count, pos, read_failed, ret >>

\* lines 199-219: the section of this file is written
LoopWrite ==
  /\ phase = "loop" /\ pos <= Len(prioritized_files)
  /\ ~LimitReached(current_size, max_bytes)
  /\ pos \notin Missing(prioritized_files, repo_path, disk)
  /\ \E section_size \in { SectionSize(disk, repo_path, prioritized_files[pos]) } :
       /\ ~WouldExceed(current_size, section_size, max_bytes)
       /\ md_file' = Append(md_file, Chunk("section", section_size, prioritized_files[pos]))
       /\ current_size' = current_size + section_size
  /\ file_count' = file_count + 1
  /\ pos' = pos + 1
  /\ UNCHANGED << call_vars, tree, is_complete, read_failed, ret, phase >>

\* completeness decided once more from the size after the loop
Finish_by_size ==
  /\ \/ phase = "loop" /\ pos > Len(prioritized_files)
     \/ phase = "break"
  /\ \E incomplete \in { ~is_complete \/ LimitReached(current_size, max_bytes) } :
       /\ IF incomplete
          THEN /\ md_file' = Append(md_file, Chunk("note", NoteSize, <<>>))
               /\ current_size' = current_size + NoteSize
          ELSE UNCHANGED << md_file, current_size >>
       /\ is_complete' = ~incomplete
       /\ ret' = [file_count |-> file_count, total_size |-> current_size',
                  is_complete |-> ~incomplete]
  /\ phase' = "returned"
  /\ UNCHANGED << call_vars, tree, file_count, pos, read_failed >>

\* the return without the note
Finish_unnoted ==
  /\ \/ phase = "loop" /\ pos > Len(prioritized_files)
     \/ phase = "break"
  /\ ret' = [file_count |-> file_count, total_size |-> current_size,
             is_complete |-> is_complete]
  /\ phase' = "returned"
  /\ UNCHANGED << call_vars, md_file, tree, current_size, file_count, is_complete, pos,
                  read_failed >>

\* lines 225-231: the note when incomplete, then the return
Finish ==
  /\ \/ phase = "loop" /\ pos > Len(prioritized_files)
     \/ phase = "break"
  /\ IF ~is_complete
     THEN /\ md_file' = Append(md_file, Chunk("note", NoteSize, <<>>))
          /\ current_size' = current_size + NoteSize
     ELSE UNCHANGED << md_file, current_size >>
  /\ ret' = [file_count |-> file_count, total_size |-> current_size',
             is_complete |-> is_complete]
  /\ phase' = "returned"
  /\ UNCHANGED << call_vars, tree, file_count, is_complete, pos, read_failed >>

_write_markdown ==
  Open \/ OpenFails \/ LoopLimit \/ LoopSkip \/ LoopOver \/ LoopWrite \/ Finish

---------------------------------------------------------------------------
(* Specifications *)

NoResult == [file_count |-> 0, total_size |-> 0, is_complete |-> TRUE]

\* no earlier build_corpus call
NoBuild == [built |-> FALSE, exclude_paths |-> {}, max_bytes |-> 0, files |-> <<>>,
            file_count |-> 0, is_complete |-> TRUE, read_failed |-> {}]

Abs(root, rel) == root \o rel

UniversePaths == { u.path : u \in Universe }

\* generate_corpus not called, no row created
NoService == local_path = <<>> /\ calls = <<>> /\ corpora = <<>>

\* import_repositories not called, an empty source and an empty database
NoImport ==
  /\ source = <<>> /\ page_size = 1 /\ page = 1 /\ repos = <<>> /\ store = <<>>
  /\ counts = [total |-> 0, created |-> 0, updated |-> 0]
  /\ requested = <<>> /\ runs = 0

NoLocals ==
  /\ md_file = <<>> /\ tree = <<>> /\ current_size = 0 /\ file_count = 0
  /\ is_complete = TRUE
  /\ pos = 0 /\ read_failed = {} /\ ret = NoResult

\* --- _prioritize_files applied to an arbitrary list -----------------------
InitClassify ==
  /\ repo_path \in Roots /\ root_exists = TRUE
  /\ \E s \in DistinctSeqs(UniversePaths, MaxLen) :
       all_files = [k \in 1..Len(s) |-> Abs(repo_path, s[k])]
  /\ disk = <<>> /\ clock = 0 /\ usec = 0 /\ exclude_paths = {} /\ max_bytes = 0
  /\ prioritized_files = <<>> /\ output_path = <<>> /\ prev = NoBuild
  /\ NoLocals /\ NoService /\ NoImport
  /\ phase = "input"

Prioritize ==
  /\ phase = "input"
  /\ prioritized_files' = _prioritize_files(all_files)
  /\ phase' = "prioritized"
  /\ UNCHANGED << repo_path, disk, clock, usec, exclude_paths, max_bytes, all_files,
                  output_path, prev, writer_vars,
                  root_exists, svc_vars, imp_vars >>

NextClassify == Prioritize

SpecClassify == InitClassify /\ [][NextClassify]_vars

\* --- _write_markdown applied to an arbitrary ordered list -----------------

\* the files the writer is tried on
WriteUniverse ==
  { u \in Universe : u.path \in { <<n_README_md>>, <<n_docs, n_README_md>>,
                                  <<n_src, n_app_py>>, <<n_docs, n_app_py>>,
                                  <<n_LICENSE>> } }

\* the counted size after the first k sections, when every read succeeds
RECURSIVE PrefixTotal(_, _, _, _, _)
PrefixTotal(files, root, d, preamble, k) ==
  IF k = 0 THEN preamble
  ELSE PrefixTotal(files, root, d, preamble, k - 1) + SectionSize(d, root, files[k])

\* budgets tried: none, tiny, ample, and the values next to each boundary of the loop
BudgetChoices(files, root, d, preamble) ==
  { -1, 0, 50, 1000000 } \cup
  { PrefixTotal(files, root, d, preamble, k) - e : k \in 0..Len(files), e \in {0, 1} }

InitWrite ==
  /\ repo_path \in Roots /\ root_exists = TRUE
  /\ disk \in DistinctSeqs(WriteUniverse, MaxLen)
  /\ usec \in {0, 1}
  /\ prioritized_files = [k \in 1..Len(disk) |-> Abs(repo_path, disk[k].path)]
  /\ max_bytes = 0
  /\ clock = 0 /\ exclude_paths = {} /\ all_files = <<>>
  /\ output_path = <<>> /\ prev = NoBuild
  /\ NoLocals /\ NoService /\ NoImport
  /\ phase = "input"

\* the caller passes a budget
CallWrite ==
  /\ phase = "input"
  /\ \E preamble \in { HeaderSize(repo_path, usec)
                        + Utf8Len(_generate_tree(prioritized_files, repo_path))
                        + TitleSize } :
       max_bytes' \in BudgetChoices(prioritized_files, repo_path, disk, preamble)
  /\ phase' = "call"
  /\ UNCHANGED << repo_path, disk, clock, usec, exclude_paths, all_files,
                  prioritized_files, output_path, prev, writer_vars,
                  root_exists, svc_vars, imp_vars >>

NextWrite == CallWrite \/ _write_markdown

SpecWrite == InitWrite /\ [][NextWrite]_vars


\* --- _collect_files applied to an arbitrary repository -------------------

\* values tried for the argument exclude_paths
ExcludeChoices == { {}, { n_docs } }

\* the files a repository may hold, one of them in a directory whose name has a
\* whitelisted extension
CollectUniverse == Universe \cup { [path |-> <<n_pkg_go, n_c_py>>, size |-> 3] }

InitCollect ==
  /\ repo_path \in Roots /\ root_exists = TRUE
  /\ disk \in DistinctSeqs(CollectUniverse, MaxLen)
  /\ clock = 0 /\ usec = 0 /\ exclude_paths = {} /\ max_bytes = 0
  /\ all_files = <<>> /\ prioritized_files = <<>> /\ output_path = <<>>
  /\ prev = NoBuild
  /\ NoLocals /\ NoService /\ NoImport
  /\ phase = "input"

\* lines 66-70: the exclude set merged, then the collection
Collect ==
  /\ phase = "input"
  /\ \E paths \in ExcludeChoices :
       /\ exclude_paths' = paths
       /\ all_files' = _collect_files(repo_path, disk, EXCLUDE_DIRS \cup paths)
  /\ phase' = "collected"
  /\ UNCHANGED << repo_path, disk, clock, usec, max_bytes, prioritized_files,
                  output_path, prev, writer_vars,
                  root_exists, svc_vars, imp_vars >>

NextCollect == Collect

SpecCollect == InitCollect /\ [][NextCollect]_vars

\* --- _generate_tree applied to an arbitrary list --------------------------

InitTree ==
  /\ repo_path \in Roots /\ root_exists = TRUE
  /\ \E s \in DistinctSeqs(UniversePaths, MaxLen) :
       prioritized_files = [k \in 1..Len(s) |-> Abs(repo_path, s[k])]
  /\ disk = <<>> /\ clock = 0 /\ usec = 0 /\ exclude_paths = {} /\ max_bytes = 0
  /\ all_files = <<>> /\ output_path = <<>> /\ prev = NoBuild
  /\ NoLocals /\ NoService /\ NoImport
  /\ phase = "input"

\* line 184: tree = self._generate_tree(files, repo_path)
GenerateTree ==
  /\ phase = "input"
  /\ tree' = _generate_tree(prioritized_files, repo_path)
  /\ phase' = "tree"
  /\ UNCHANGED << call_vars, md_file, current_size, file_count, is_complete, pos,
                  read_failed, ret >>

NextTree == GenerateTree

SpecTree == InitTree /\ [][NextTree]_vars

\* --- build_corpus called repeatedly on one repository ---------------------

\* budgets tried for the argument max_bytes
BuildBudgets == { 0, 400, 1000000 }

\* the files a repository built repeatedly may hold
BuildUniverse ==
  { u \in Universe : u.path \in { <<n_README_md>>, <<n_docs, n_README_md>>,
                                  <<n_src, n_app_py>>,
                                  <<n_src, n_node_modules, n_lib, n_c_py>> } }

InitBuild ==
  /\ repo_path \in Roots
  /\ root_exists \in BOOLEAN
  /\ disk \in (IF root_exists THEN DistinctSeqs(BuildUniverse, MaxFiles) ELSE { <<>> })
  /\ clock = 0 /\ usec = 1 /\ exclude_paths = {} /\ max_bytes = 0
  /\ all_files = <<>> /\ prioritized_files = <<>> /\ output_path = <<>>
  /\ prev = NoBuild
  /\ NoLocals /\ NoService /\ NoImport
  /\ phase = "idle"

\* lines 64-84: collect, prioritize, output path, up to the call of _write_markdown;
\* the clock has advanced by a second since the previous call, and a repository
\* is built again with the arguments of its first build
BuildCorpus ==
  /\ phase = "idle"
  /\ clock < MaxBuilds
  /\ \E paths \in ExcludeChoices, budget \in BuildBudgets :
       /\ clock > 0 => (paths = exclude_paths /\ budget = max_bytes)
       /\ exclude_paths' = paths
       /\ max_bytes' = budget
       /\ all_files' = _collect_files(repo_path, disk, EXCLUDE_DIRS \cup paths)
  /\ prioritized_files' = _prioritize_files(all_files')
  /\ clock' = clock + 1
  /\ output_path' = _generate_output_path(repo_path, clock')
  /\ prev' = IF clock = 0 THEN NoBuild
             ELSE [built |-> TRUE, exclude_paths |-> exclude_paths,
                   max_bytes |-> max_bytes, files |-> prioritized_files,
                   file_count |-> ret.file_count, is_complete |-> ret.is_complete,
                   read_failed |-> read_failed]
  /\ phase' = "call"
  /\ UNCHANGED << repo_path, disk, usec, writer_vars, root_exists, svc_vars, imp_vars >>

\* lines 86-91: the document stays in the repository root.  It is enumerated
\* after the files that were there; its place does not matter to any sort key,
\* its name being unlike every other name.
Return ==
  /\ phase = "returned"
  /\ disk' = Append(disk, [path |-> output_path, size |-> SumSizes(md_file)])
  /\ phase' = "idle"
  /\ UNCHANGED << repo_path, clock, usec, exclude_paths, max_bytes, all_files,
                  prioritized_files, output_path, prev, writer_vars,
                  root_exists, svc_vars, imp_vars >>

NextBuild == BuildCorpus \/ _write_markdown \/ Return

SpecBuild == InitBuild /\ [][NextBuild]_vars

\* --- MarkdownCorpusService.generate_corpus on one repository row -----------

\* size of the README.md that _create_empty_mirror writes:
\* "# {repo_name}\n\n" "This is a placeholder directory. Repository source not available.\n"
PlaceholderSize(root) == 2 + Utf8Len(Name(root)) + 2 + 66

\* contents of testdata/repos/<name> that _copy_from_testdata may copy
TestdataChoices == DistinctSeqs(BuildUniverse, 1)

\* _create_empty_mirror: the directory made if missing, README.md written into it
\* (over the one that is there, if any)
WithPlaceholder(root, d) ==
  LET readme == [path |-> <<n_README_md>>, size |-> PlaceholderSize(root)]
  IN  IF \E k \in 1..Len(d) : d[k].path = <<n_README_md>>
      THEN [k \in 1..Len(d) |-> IF d[k].path = <<n_README_md>> THEN readme ELSE d[k]]
      ELSE Append(d, readme)

\* what the directory holds after mirror_repository: the copy of the testdata
\* directory, which replaces what was there, or the placeholder
MirrorResults(root, d) == TestdataChoices \cup { WithPlaceholder(root, d) }

\* the condition tested with the local path set but the directory not looked at
NeedsMirror_blank == local_path = <<>>

\* line 180: "not repo.local_path or not Path(repo.local_path).exists()"
NeedsMirror == local_path = <<>> \/ ~root_exists

\* the row of one repository; repo_path is REPO_DOWNLOAD_ROOT / repo.name, the
\* directory the mirror fills, and repo.local_path is blank or names it
InitService ==
  /\ repo_path \in Roots
  /\ root_exists \in BOOLEAN
  /\ disk \in (IF root_exists THEN DistinctSeqs(BuildUniverse, MaxFiles) ELSE { <<>> })
  /\ local_path \in { <<>>, repo_path }
  /\ calls = <<>> /\ corpora = <<>>
  /\ clock = 0 /\ usec = 1 /\ exclude_paths = {} /\ max_bytes = 0
  /\ all_files = <<>> /\ prioritized_files = <<>> /\ output_path = <<>>
  /\ prev = NoBuild
  /\ NoLocals /\ NoImport
  /\ phase = "start"

\* lines 180-191: the repository is mirrored and the row saved with the new path
Mirror ==
  /\ phase = "start"
  /\ NeedsMirror
  /\ disk' \in MirrorResults(repo_path, disk)
  /\ root_exists' = TRUE
  /\ local_path' = repo_path
  /\ calls' = calls \o << "mirror_repository", "save" >>
  /\ phase' = "mirrored"
  /\ UNCHANGED << repo_path, clock, usec, exclude_paths, max_bytes, all_files,
                  prioritized_files, output_path, prev, writer_vars, corpora, imp_vars >>

\* lines 184-189: mirror_repository raises before it has created anything; the
\* exception leaves generate_corpus
MirrorFails ==
  /\ phase = "start"
  /\ NeedsMirror
  /\ calls' = Append(calls, "mirror_repository")
  /\ phase' = "failed"
  /\ UNCHANGED << repo_path, disk, clock, usec, exclude_paths, max_bytes, all_files,
                  prioritized_files, output_path, prev, writer_vars, root_exists,
                  local_path, corpora, imp_vars >>

\* line 180: the condition is false, the mirror is not called
SkipMirror ==
  /\ phase = "start"
  /\ ~NeedsMirror
  /\ phase' = "mirrored"
  /\ UNCHANGED << repo_path, disk, clock, usec, exclude_paths, max_bytes, all_files,
                  prioritized_files, output_path, prev, writer_vars, root_exists,
                  svc_vars, imp_vars >>

\* lines 194-199: build_corpus is called with Path(repo.local_path)
CallBuild ==
  /\ phase = "mirrored"
  /\ calls' = Append(calls, "build_corpus")
  /\ phase' = "idle"
  /\ UNCHANGED << repo_path, disk, clock, usec, exclude_paths, max_bytes, all_files,
                  prioritized_files, output_path, prev, writer_vars, root_exists,
                  local_path, corpora, imp_vars >>

\* build_corpus lines 86-91, then generate_corpus lines 202-214: the document is
\* in the root, its size is read back and the MarkdownCorpus row is created
Persist ==
  /\ phase = "returned"
  /\ \E file_size \in { SumSizes(md_file) } :
       /\ disk' = Append(disk, [path |-> output_path, size |-> file_size])
       /\ corpora' = Append(corpora,
                            [file_path |-> Abs(repo_path, output_path),
                             file_size_bytes |-> file_size,
                             file_count |-> 0,
                             is_complete |-> file_size < max_bytes])
  /\ calls' = Append(calls, "create")
  /\ phase' = "done"
  /\ UNCHANGED << repo_path, clock, usec, exclude_paths, max_bytes, all_files,
                  prioritized_files, output_path, prev, writer_vars, root_exists,
                  local_path, imp_vars >>

NextService ==
  Mirror \/ MirrorFails \/ SkipMirror \/ CallBuild \/ BuildCorpus \/ _write_markdown
    \/ Persist

SpecService == InitService /\ [][NextService]_vars

\* --- RepositoryImportService.import_repositories against one source --------

\* rows a source may hold: three repositories, and a second row for the first
\* of them under another name
SourceRows ==
  { [external_id |-> "r1", name |-> "a"], [external_id |-> "r1", name |-> "b"],
    [external_id |-> "r2", name |-> "a"], [external_id |-> "r3", name |-> "a"] }

\* the slice taken from a start index that is one page too far
list_repositories_skewed(all_repositories, size, page_token) ==
  LET start_idx == page_token * size
      end_idx == start_idx + size
  IN  SubSeq(all_repositories, start_idx + 1,
             IF end_idx < Len(all_repositories) THEN end_idx ELSE Len(all_repositories))

\* CSVMockAdapter.list_repositories, lines 86-92: all_repositories[start_idx:end_idx]
\* of the rows parsed from the file
list_repositories(all_repositories, size, page_token) ==
  LET start_idx == (page_token - 1) * size
      end_idx == start_idx + size
  IN  SubSeq(all_repositories, start_idx + 1,
             IF end_idx < Len(all_repositories) THEN end_idx ELSE Len(all_repositories))

\* whether the table holds a row with this external_id
Exists(table, id) == \E k \in 1..Len(table) : table[k].external_id = id

\* a row inserted whether or not the table holds its external_id
update_or_create_insert(table, dto) == Append(table, dto)

\* "RepositoryModel.objects.update_or_create(external_id=..., defaults={...})":
\* the row with this external_id takes the new values, or a row is inserted
update_or_create(table, dto) ==
  IF Exists(table, dto.external_id)
  THEN [k \in 1..Len(table) |->
          IF table[k].external_id = dto.external_id THEN dto ELSE table[k]]
  ELSE Append(table, dto)

\* lines 58-78: the table after the rows of a page
RECURSIVE AfterPage(_, _)
AfterPage(table, dtos) ==
  IF dtos = <<>> THEN table
  ELSE AfterPage(update_or_create(table, Head(dtos)), Tail(dtos))

\* lines 72-78: how many rows of a page were created
RECURSIVE CreatedIn(_, _)
CreatedIn(table, dtos) ==
  IF dtos = <<>> THEN 0
  ELSE (IF Exists(table, Head(dtos).external_id) THEN 0 ELSE 1)
       + CreatedIn(update_or_create(table, Head(dtos)), Tail(dtos))

\* a source, a page size and an empty Repository table
InitImport ==
  /\ source \in UNION { [1..n -> SourceRows] : n \in 0..MaxRows }
  /\ page_size \in 1..MaxPageSize
  /\ page = 1 /\ repos = <<>> /\ store = <<>>
  /\ counts = [total |-> 0, created |-> 0, updated |-> 0]
  /\ requested = <<>> /\ runs = 0
  /\ repo_path \in { <<n_root, n_srv, n_repo>> } /\ root_exists = TRUE
  /\ disk = <<>> /\ clock = 0 /\ usec = 0 /\ exclude_paths = {} /\ max_bytes = 0
  /\ all_files = <<>> /\ prioritized_files = <<>> /\ output_path = <<>>
  /\ prev = NoBuild
  /\ NoLocals /\ NoService
  /\ phase = "idle"

builder_vars == << repo_path, disk, clock, usec, exclude_paths, max_bytes, all_files,
                   prioritized_files, output_path, prev, writer_vars, root_exists,
                   svc_vars >>

\* lines 39-43: import_repositories is called, for the first time or again
StartImport ==
  /\ phase \in { "idle", "imported" }
  /\ runs < MaxRuns
  /\ runs' = runs + 1
  /\ counts' = [total |-> 0, created |-> 0, updated |-> 0]
  /\ page' = 1
  /\ repos' = <<>>
  /\ requested' = <<>>
  /\ phase' = "fetch"
  /\ UNCHANGED << builder_vars, source, page_size, store >>

\* lines 46-50: the next page is asked of the platform
FetchPage ==
  /\ phase = "fetch"
  /\ repos' = list_repositories(source, page_size, page)
  /\ requested' = Append(requested, page)
  /\ phase' = "fetched"
  /\ UNCHANGED << builder_vars, source, page_size, page, store, counts, runs >>

\* lines 52-54, 90-96: an empty page ends the loop
EmptyPage ==
  /\ phase = "fetched"
  /\ repos = <<>>
  /\ phase' = "imported"
  /\ UNCHANGED << builder_vars, imp_vars >>

\* lines 56-86, 90-96: the rows of a short page are stored and the loop ends
ShortPage ==
  /\ phase = "fetched"
  /\ repos # <<>>
  /\ Len(repos) < page_size
  /\ store' = AfterPage(store, repos)
  /\ \E created \in { CreatedIn(store, repos) } :
       counts' = [total |-> counts.total + Len(repos),
                  created |-> counts.created + created,
                  updated |-> counts.updated + (Len(repos) - created)]
  /\ phase' = "imported"
  /\ UNCHANGED << builder_vars, source, page_size, page, repos, requested, runs >>

\* lines 56-88: the rows of a full page are stored and the page number advances
FullPage ==
  /\ phase = "fetched"
  /\ repos # <<>>
  /\ ~(Len(repos) < page_size)
  /\ store' = AfterPage(store, repos)
  /\ \E created \in { CreatedIn(store, repos) } :
       counts' = [total |-> counts.total + Len(repos),
                  created |-> counts.created + created,
                  updated |-> counts.updated + (Len(repos) - created)]
  /\ page' = page + 1
  /\ phase' = "fetch"
  /\ UNCHANGED << builder_vars, source, page_size, repos, requested, runs >>

\* the steps of one call
import_repositories == FetchPage \/ EmptyPage \/ ShortPage \/ FullPage

NextImport == StartImport \/ import_repositories

SpecImport == InitImport /\ [][NextImport]_vars

\* a call that has started runs on: nothing in the loop waits
SpecImportLive == SpecImport /\ WF_vars(import_repositories)

---------------------------------------------------------------------------
(* Claims about _prioritize_files (SpecClassify) *)

\* tier of a file by the table PRIORITY_GROUPS; 6 is the remainder bucket
Tier(f) ==
  IF Name(f) \in PRIORITY_GROUP_1 THEN 1
  ELSE IF Suffix(f) \in PRIORITY_GROUP_2 THEN 2
  ELSE IF Suffix(f) \in PRIORITY_GROUP_3 THEN 3
  ELSE IF Suffix(f) \in PRIORITY_GROUP_4 THEN 4
  ELSE IF Suffix(f) \in PRIORITY_GROUP_5 THEN 5
  ELSE 6

\* the orderings of the elements of a list of distinct elements
Orderings(s) == { q \in DistinctSeqs(Range(s), Len(s)) : Len(q) = Len(s) }

\* number of positions of list s that hold x
Occurrences(s, x) == Cardinality({ k \in 1..Len(s) : s[k] = x })

\* C4 as claimed: whatever the order in which the collected files are given,
\* _prioritize_files returns the same sequence.
C4_OrderIndependent ==
  phase = "prioritized" =>
    \A q \in Orderings(all_files) : _prioritize_files(q) = prioritized_files

\* C5: the output of _prioritize_files holds every input file exactly once and
\* nothing else; a tier-1 name with a tier 2-5 extension is not placed twice.
C5_ExactlyOnce ==
  phase = "prioritized" =>
    /\ Len(prioritized_files) = Len(all_files)
    /\ Range(prioritized_files) = Range(all_files)
    /\ \A f \in Range(all_files) : Occurrences(prioritized_files, f) = 1

\* a list with a tier-1 name whose extension is a tier-4 extension, and other files
C5_Witness ==
  /\ phase = "prioritized"
  /\ Len(all_files) = MaxLen
  /\ \E f \in Range(all_files) :
       Name(f) \in PRIORITY_GROUP_1 /\ Suffix(f) \in PRIORITY_GROUP_4
  /\ \E f \in Range(all_files) : Tier(f) = 6

\* C6: in the output a file of a lower tier never comes after a file of a higher
\* tier, and the files of no tier come last.
C6_TierPrecedence ==
  phase = "prioritized" =>
    \A a, b \in 1..Len(prioritized_files) :
      a < b => Tier(prioritized_files[a]) <= Tier(prioritized_files[b])

\* a deep .py file given before a root README.md and a config file: README.md first
C6_Witness ==
  /\ phase = "prioritized"
  /\ Len(all_files) = 3
  /\ Tier(all_files[1]) = 3 /\ Tier(all_files[2]) = 2 /\ Tier(all_files[3]) = 1
  /\ Len(all_files[3]) < Len(all_files[2])
  /\ Name(prioritized_files[1]) = n_README_md
  /\ Suffix(prioritized_files[2]) = <<46, 112, 121>>

---------------------------------------------------------------------------
(* Claims about _write_markdown (SpecWrite) *)

\* bytes actually written to the document
DocBytes == SumSizes(md_file)

\* the files written as sections, in document order
Sections == SelectSeq(md_file, LAMBDA c : c.kind = "section")
SectionFiles == [k \in 1..Len(Sections) |-> Sections[k].file]

HasNote == \E k \in 1..Len(md_file) : md_file[k].kind = "note"

\* size of header, tree and section title of the returned document
PreambleSize == md_file[1].size + md_file[2].size + md_file[4].size

\* PreambleSize plus the section sizes of all files of the list
TotalSize ==
  PrefixTotal(prioritized_files, repo_path, disk, PreambleSize, Len(prioritized_files))

\* C1 as claimed: when header, tree, section title and all file sections together
\* exceed the budget, the document is at most budget + note bytes long and
\* is_complete is false.
C1_BudgetEnforced ==
  (phase = "returned" /\ read_failed = {} /\ TotalSize > max_bytes) =>
    /\ DocBytes <= max_bytes + NoteSize
    /\ ~ret.is_complete

\* C2 as claimed: is_complete is returned true exactly when every file of the
\* list was written as a section.
C2_CompleteIffAllWritten ==
  phase = "returned" =>
    (ret.is_complete <=> SectionFiles = prioritized_files)

\* C8: with a budget of at least the size of header, tree, section title and all
\* sections, and no read failing, the result is complete, counts every file,
\* holds the files once each in the given order, and has no note.
C8_SufficientBudget ==
  (phase = "returned" /\ read_failed = {} /\ max_bytes >= TotalSize) =>
    /\ ret.is_complete
    /\ ret.file_count = Len(prioritized_files)
    /\ SectionFiles = prioritized_files
    /\ ~HasNote

\* several files and a budget of exactly the total size
C8_Witness ==
  /\ phase = "returned" /\ read_failed = {}
  /\ Len(prioritized_files) >= 2
  /\ max_bytes = TotalSize
  /\ ret.file_count = Len(prioritized_files)

\* C9 as claimed: with a budget <= 0 no section is written and is_complete is
\* false, for every file list including the empty one.
C9_NonPositiveBudget ==
  (phase = "returned" /\ max_bytes <= 0) =>
    /\ ret.file_count = 0 /\ Len(Sections) = 0
    /\ ~ret.is_complete

\* C9 amended: with a budget <= 0 and a non-empty file list no section is written
\* and is_complete is false.
C9_NonPositiveBudgetNonEmpty ==
  (phase = "returned" /\ max_bytes <= 0 /\ Len(prioritized_files) > 0) =>
    /\ ret.file_count = 0 /\ Len(Sections) = 0
    /\ ~ret.is_complete

\* a non-empty list returned under a budget <= 0
C9_Witness ==
  /\ phase = "returned" /\ max_bytes <= 0 /\ Len(prioritized_files) > 0
  /\ HasNote

\* the tree of an empty file list: fence, root line, fence
EmptyTree == Join(<< <<96, 96, 96>>, Name(repo_path) \o <<47>>, <<96, 96, 96>> >>)

\* C10: for an empty file list, whatever the budget, file_count is 0, is_complete
\* is true and the document is header, empty tree and section title, without note.
C10_EmptyInput ==
  (phase = "returned" /\ Len(prioritized_files) = 0) =>
    /\ ret.file_count = 0
    /\ ret.is_complete
    /\ [k \in 1..Len(md_file) |-> md_file[k].kind]
         = << "header", "tree", "separator", "title" >>
    /\ md_file[2].size = Utf8Len(EmptyTree)

\* an empty list returned under a budget that is already used up
C10_Witness ==
  /\ phase = "returned" /\ Len(prioritized_files) = 0
  /\ max_bytes <= 0
  /\ ret.is_complete

---------------------------------------------------------------------------
(* Claims about _collect_files (SpecCollect) and build_corpus (SpecBuild) *)

\* C3 as claimed: two consecutive build_corpus calls with the same arguments, on
\* a repository nobody else changed, give the same ordered file list, the same
\* file_count and the same is_complete.
C3_ConsecutiveBuildsAgree ==
  (/\ phase = "returned" /\ prev.built
   /\ prev.exclude_paths = exclude_paths /\ prev.max_bytes = max_bytes
   /\ prev.read_failed = {} /\ read_failed = {}) =>
    /\ prev.files = prioritized_files
    /\ prev.file_count = ret.file_count
    /\ prev.is_complete = ret.is_complete

\* C7: a file with a component named like an excluded directory (baseline or
\* caller-supplied), at any depth, is not in the list _collect_files returns.
C7_ExcludedNeverCollected ==
  phase = "collected" =>
    \A k \in 1..Len(disk) :
      (\E c \in Range(disk[k].path) : c \in EXCLUDE_DIRS \cup exclude_paths)
        => Abs(repo_path, disk[k].path) \notin Range(all_files)

\* a whitelisted file nested below node_modules, a file below a caller-excluded
\* directory, and a third file that is collected
C7_Witness ==
  /\ phase = "collected"
  /\ exclude_paths = { n_docs }
  /\ \E k \in 1..Len(disk) : disk[k].path = <<n_src, n_node_modules, n_lib, n_c_py>>
  /\ \E k \in 1..Len(disk) : disk[k].path = <<n_docs, n_README_md>>
  /\ Len(all_files) = 1

---------------------------------------------------------------------------
(* More claims about _write_markdown (SpecWrite) *)

\* C11: with a non-empty file list and a budget not larger than the size of
\* header, tree and section title, no file section is written, file_count is 0
\* and is_complete is false.
C11_BudgetBelowPreamble ==
  (phase = "returned" /\ Len(prioritized_files) > 0 /\ max_bytes <= PreambleSize) =>
    /\ Len(Sections) = 0
    /\ ret.file_count = 0
    /\ ~ret.is_complete

\* several files and a budget of exactly header, tree and section title
C11_Witness ==
  /\ phase = "returned" /\ Len(prioritized_files) >= 2
  /\ max_bytes = PreambleSize
  /\ ret.file_count = 0 /\ HasNote

\* the files whose read raised, and the list without them
FailedFiles == { prioritized_files[k] : k \in read_failed }
ReadFiles == SelectSeq(prioritized_files, LAMBDA f : f \notin FailedFiles)

\* C12: a file whose read raises is skipped, and only that file: the call
\* returns, the sections are the files read, in order, as far as the budget
\* rules let them in; is_complete and the returned size are what they are
\* without the failed files.
C12_FailureIsLocal ==
  (phase = "returned" /\ read_failed # {}) =>
    LET counted == PreambleSize + SumSizes(Sections)
    IN  /\ Range(SectionFiles) \cap FailedFiles = {}
        /\ Len(Sections) <= Len(ReadFiles)
        /\ SectionFiles = SubSeq(ReadFiles, 1, Len(Sections))
        /\ ret.is_complete <=> Len(Sections) = Len(ReadFiles)
        /\ Len(Sections) > 0 => counted <= max_bytes
        /\ ~ret.is_complete =>
             counted + SectionSize(disk, repo_path, ReadFiles[Len(Sections) + 1]) > max_bytes
        /\ ret.file_count = Len(Sections)
        /\ ret.total_size = counted + (IF ret.is_complete THEN 0 ELSE NoteSize)

\* a read that raised, a later file written, and the result complete
C12_Witness ==
  /\ phase = "returned" /\ ret.is_complete
  /\ \E k \in read_failed :
       \E j \in (k + 1)..Len(prioritized_files) :
         prioritized_files[j] \in Range(SectionFiles)

\* C13 as claimed: the returned total size is the number of bytes written to
\* the document.
C13_ReportedIsWritten ==
  phase = "returned" => ret.total_size = DocBytes

\* C14 as claimed: a result with is_complete = true has a document of at most
\* max_bytes bytes.
C14_CompleteWithinBudget ==
  (phase = "returned" /\ ret.is_complete) => DocBytes <= max_bytes

\* C19 as claimed: the tree of the document is the tree of the files written as
\* sections, and of no other file.
C19_TreeShowsIncluded ==
  phase = "returned" => tree = _generate_tree(SectionFiles, repo_path)

---------------------------------------------------------------------------
(* More claims about _prioritize_files (SpecClassify) *)

\* number of path segments of a file below the repository root
Depth(f) == Len(RelativeTo(f, repo_path))

\* C15: in the output, two files of the same tier among 2..5, or of the
\* remainder, are in non-decreasing order of (segments below the root, filename);
\* two files of tier 1 are in non-decreasing order of filename.
C15_WithinTierOrder ==
  phase = "prioritized" =>
    \A a, b \in 1..Len(prioritized_files) :
      LET x == prioritized_files[a]
          y == prioritized_files[b]
      IN  (a < b /\ Tier(x) = Tier(y)) =>
            IF Tier(x) = 1
            THEN ~StrLess(Name(y), Name(x))
            ELSE \/ Depth(x) < Depth(y)
                 \/ (Depth(x) = Depth(y) /\ ~StrLess(Name(y), Name(x)))

\* two files of one tier given deeper first, the deeper one with the smaller name
C15_Witness ==
  /\ phase = "prioritized"
  /\ \E a, b \in 1..Len(all_files) :
       /\ a < b
       /\ Tier(all_files[a]) = Tier(all_files[b]) /\ Tier(all_files[a]) > 1
       /\ Depth(all_files[a]) > Depth(all_files[b])
       /\ StrLess(Name(all_files[a]), Name(all_files[b]))

\* C16: a file whose name is in the tier-1 name set comes before every file whose
\* name is not, whatever its depth, and among such files the order is by
\* filename alone.
C16_TierOneByNameOnly ==
  phase = "prioritized" =>
    \A a, b \in 1..Len(prioritized_files) :
      LET x == prioritized_files[a]
          y == prioritized_files[b]
      IN  /\ (Name(x) \in PRIORITY_GROUP_1 /\ Name(y) \notin PRIORITY_GROUP_1) => a < b
          /\ (a < b /\ Name(x) \in PRIORITY_GROUP_1 /\ Name(y) \in PRIORITY_GROUP_1)
               => ~StrLess(Name(y), Name(x))

\* docs/README.md put first, before a file of tier 2-5 that lies in the root
C16_Witness ==
  /\ phase = "prioritized"
  /\ Len(prioritized_files) >= 2
  /\ RelativeTo(prioritized_files[1], repo_path) = <<n_docs, n_README_md>>
  /\ \E b \in 2..Len(prioritized_files) :
       /\ Tier(prioritized_files[b]) \in 2..5
       /\ Depth(prioritized_files[b]) = 1

\* C17: _prioritize_files applied to its own output returns it unchanged.
C17_Idempotent ==
  phase = "prioritized" =>
    _prioritize_files(prioritized_files) = prioritized_files

\* an input that is reordered and holds two files with equal sort keys
C17_Witness ==
  /\ phase = "prioritized"
  /\ prioritized_files # all_files
  /\ \E a, b \in 1..Len(all_files) :
       /\ a < b
       /\ Tier(all_files[a]) = Tier(all_files[b]) /\ Tier(all_files[a]) > 1
       /\ Depth(all_files[a]) = Depth(all_files[b])
       /\ Name(all_files[a]) = Name(all_files[b])

---------------------------------------------------------------------------
(* More claims about _collect_files (SpecCollect) *)

---------------------------------------------------------------------------
(* Claims about _generate_tree (SpecTree) *)

\* text.split("\n")
Lines(text) ==
  LET nl == { k \in 1..Len(text) : text[k] = 10 }
      cut(i) == IF i = 0 THEN 0
                ELSE IF i = Cardinality(nl) + 1 THEN Len(text) + 1
                ELSE CHOOSE p \in nl : Cardinality({ q \in nl : q < p }) = i - 1
  IN  [i \in 1..(Cardinality(nl) + 1) |-> SubSeq(text, cut(i - 1) + 1, cut(i) - 1)]

\* C20: between the fences, the tree is the root line, then every ancestor
\* directory of a listed file once, in (depth, path) order, indented two spaces
\* per level, then every file once, in (parent directory, filename) order,
\* indented likewise; so no file line precedes a directory line.
C20_TreeShape ==
  phase = "tree" =>
    LET lines == Lines(tree)
        files == Range(prioritized_files)
        rel(f) == RelativeTo(f, repo_path)
        dirs == UNION { { SubSeq(rel(f), 1, n) : n \in 1..(Len(rel(f)) - 1) } : f \in files }
        nd == Cardinality(dirs)
        dir_rank(d) == Cardinality({ e \in dirs : DepthStrLess(e, d) }) + 1
        file_rank(f) == Cardinality({ g \in files : ParentNameLess(g, f) }) + 1
    IN  /\ Len(lines) = 2 + nd + Cardinality(files) + 1
        /\ lines[1] = <<96, 96, 96>>
        /\ lines[2] = Name(repo_path) \o <<47>>
        /\ lines[Len(lines)] = <<96, 96, 96>>
        /\ \A d \in dirs :
             lines[2 + dir_rank(d)] = Indent(Len(d)) \o Name(d) \o <<47>>
        /\ \A f \in files :
             lines[2 + nd + file_rank(f)] = Indent(Len(rel(f))) \o Name(f)

\* a file four levels deep, a file in the root and a file in docs
C20_Witness ==
  /\ phase = "tree"
  /\ Len(prioritized_files) = 3
  /\ \E f \in Range(prioritized_files) : Depth(f) = 4
  /\ \E f \in Range(prioritized_files) : Depth(f) = 1
  /\ \E f \in Range(prioritized_files) : Parent(RelativeTo(f, repo_path)) = <<n_docs>>
  /\ Len(Lines(tree)) = 10


---------------------------------------------------------------------------
(* Claims about the end of the loop and the trailing note (SpecWrite) *)

\* positions of the document that hold the size-limit note
NotePositions == { k \in 1..Len(md_file) : md_file[k].kind = "note" }

\* C21: the size-limit note is the last chunk of the returned document exactly
\* when the returned is_complete is false; the document never holds two notes,
\* and a note is only ever the last chunk of a document whose writer has returned.
C21_TrailingNote ==
  /\ Cardinality(NotePositions) <= 1
  /\ \A k \in NotePositions : k = Len(md_file) /\ phase = "returned"
  /\ phase = "returned" => (NotePositions = { Len(md_file) } <=> ~ret.is_complete)

\* an incomplete document with a section, the note after it
C21_Witness ==
  /\ phase = "returned" /\ ~ret.is_complete
  /\ Len(Sections) >= 1
  /\ md_file[Len(md_file)].kind = "note"
  /\ md_file[Len(md_file) - 1].kind = "section"

\* the files among the first n of the list whose read did not raise, in order
ReadablePrefix(n) ==
  SelectSeq(SubSeq(prioritized_files, 1, n), LAMBDA f : f \notin FailedFiles)

\* C25: the sections of the returned document are, in order, the readable files
\* of the first n files of the list, for some n; when n is not the whole list the
\* result is incomplete and file n+1 is one whose section did not fit or that
\* was reached with the budget used up, and no file after it has a section.
C25_StopAtFirstMisfit ==
  phase = "returned" =>
    \E n \in 0..Len(prioritized_files) :
      /\ SectionFiles = ReadablePrefix(n)
      /\ read_failed \subseteq 1..n
      /\ n < Len(prioritized_files) =>
           /\ ~ret.is_complete
           /\ \/ LimitReached(ret.total_size - NoteSize, max_bytes)
              \/ WouldExceed(ret.total_size - NoteSize,
                             SectionSize(disk, repo_path, prioritized_files[n + 1]),
                             max_bytes)
           /\ \A j \in (n + 1)..Len(prioritized_files) :
                prioritized_files[j] \notin Range(SectionFiles)

\* the loop stopped at a file whose section did not fit, a section was written
\* before it, and a later file's section would have fitted
C25_Witness ==
  /\ phase = "returned" /\ ~ret.is_complete
  /\ Len(Sections) >= 1
  /\ pos < Len(prioritized_files)
  /\ ~LimitReached(ret.total_size - NoteSize, max_bytes)
  /\ \E j \in (pos + 1)..Len(prioritized_files) :
       ~WouldExceed(ret.total_size - NoteSize,
                    SectionSize(disk, repo_path, prioritized_files[j]), max_bytes)

---------------------------------------------------------------------------
(* Claims about the location of the root and the case of extensions *)

\* root-relative paths of a list of collected files
RelativePaths(files, root) == { RelativeTo(files[k], root) : k \in 1..Len(files) }

\* C27 as claimed: the set of root-relative paths collected from a repository is
\* the one collected from the same tree placed under any other root, a root
\* below a directory named "build" included.
C27_RootIndependent ==
  phase = "collected" =>
    \A root \in Roots :
      RelativePaths(_collect_files(root, disk, EXCLUDE_DIRS \cup exclude_paths), root)
        = RelativePaths(all_files, repo_path)

\* tier of a file when its extension is compared as the collector compares it,
\* lower-cased; 6 is the remainder bucket
TierLowered(f) ==
  IF Name(f) \in PRIORITY_GROUP_1 THEN 1
  ELSE IF Lower(Suffix(f)) \in PRIORITY_GROUP_2 THEN 2
  ELSE IF Lower(Suffix(f)) \in PRIORITY_GROUP_3 THEN 3
  ELSE IF Lower(Suffix(f)) \in PRIORITY_GROUP_4 THEN 4
  ELSE IF Lower(Suffix(f)) \in PRIORITY_GROUP_5 THEN 5
  ELSE 6

\* C28 as claimed: a file the collector admits for an extension that, lower-cased,
\* belongs to tier 2..5 is placed in that tier: it comes before every admitted file
\* of a later tier or of the remainder, and after every admitted file of an
\* earlier tier.
C28_ExtensionsAgree ==
  phase = "prioritized" =>
    \A i, j \in 1..Len(prioritized_files) :
      ( /\ IsEligible(prioritized_files[i]) /\ IsEligible(prioritized_files[j])
        /\ TierLowered(prioritized_files[i]) \in 2..5
        /\ TierLowered(prioritized_files[i]) < TierLowered(prioritized_files[j]) )
      => i < j

---------------------------------------------------------------------------
(* Claims about repeated builds and their documents (SpecBuild) *)

\* the documents build_corpus has written into the root so far
EarlierOutputs ==
  { Abs(repo_path, d.path) :
      d \in { e \in Range(disk) :
                \E t \in 1..clock : e.path = _generate_output_path(repo_path, t) } }

\* C26 as claimed: a document written into the root by an earlier build_corpus
\* call is not among the files collected by a later call, nor among the files
\* its tree is generated from, nor among its sections.
C26_OutputsNotInputs ==
  \A doc \in EarlierOutputs :
    /\ doc \notin Range(all_files)
    /\ doc \notin Range(prioritized_files)
    /\ doc \notin Range(SectionFiles)

\* C22: when the repository root does not exist, build_corpus never gets past
\* opening its output: the writer writes nothing and does not return, the call
\* ends with the exception, and no document, whole or partial, is in the root.
C22_MissingRoot ==
  ~root_exists =>
    /\ phase \in { "idle", "call", "raised" }
    /\ md_file = <<>>
    /\ disk = <<>>
    /\ ret = NoResult

\* build_corpus was called on a missing root and the exception left it
C22_Witness ==
  /\ ~root_exists
  /\ clock = 1 /\ output_path # <<>>
  /\ phase = "raised"

---------------------------------------------------------------------------
(* Claims about MarkdownCorpusService.generate_corpus (SpecService) *)

\* C23 as claimed: the MarkdownCorpus row created by generate_corpus holds the
\* file_count and the is_complete that _write_markdown returned for that build.
C23_MetadataIsResult ==
  phase = "done" =>
    /\ corpora[Len(corpora)].file_count = ret.file_count
    /\ corpora[Len(corpora)].is_complete = ret.is_complete

IsPrefix(a, b) == Len(a) <= Len(b) /\ a = SubSeq(b, 1, Len(a))

\* the calls of a whole run that mirrors, and of one that does not
WithMirror == << "mirror_repository", "save", "build_corpus", "create" >>
WithoutMirror == << "build_corpus", "create" >>

\* the calls made so far are the beginning of one of the two whole runs;
\* build_corpus has been called at most once, and only on the directory the row
\* names, which exists; a row exists only once build_corpus has returned and its
\* document is in the root; no row exists after a failure
ServiceOrder ==
  /\ IsPrefix(calls, WithMirror) \/ IsPrefix(calls, WithoutMirror)
  /\ clock <= 1
  /\ clock = 1 => "build_corpus" \in Range(calls)
  /\ "build_corpus" \in Range(calls) => root_exists /\ local_path = repo_path
  /\ Len(corpora) = Occurrences(calls, "create")
  /\ corpora # <<>> =>
       /\ phase = "done" /\ clock = 1
       /\ ret.total_size > 0
       /\ corpora[1].file_path = Abs(repo_path, output_path)
       /\ \E k \in 1..Len(disk) : disk[k].path = output_path
  /\ phase \in { "failed", "raised" } => corpora = <<>>

\* a run starts with the mirror exactly when the row has no local path or the
\* path does not exist
MirrorIffNeeded ==
  phase = "start" =>
    ((local_path = <<>> \/ ~root_exists) <=> (calls' # <<>> /\ calls'[1] = "mirror_repository"))

\* C30: in every run of generate_corpus the mirror is called exactly when the
\* row has no local path or the path does not exist; the mirror call and the
\* save of local_path come before the call of build_corpus; build_corpus is
\* called once, on a directory that exists; the row is created only after
\* build_corpus returned, and none is created when the mirror or the build fails.
C30_MirrorBuildPersist == []ServiceOrder /\ [][MirrorIffNeeded]_vars

\* a whole run that had to mirror: mirror, save, build, create, one row
C30_Witness ==
  /\ phase = "done"
  /\ calls = WithMirror
  /\ Len(corpora) = 1

---------------------------------------------------------------------------
(* Claims about RepositoryImportService.import_repositories *)

\* the external_id values a source holds
DistinctIds(rows) == { rows[k].external_id : k \in 1..Len(rows) }

\* C24 (SpecImport), for a Repository table that was empty before the first
\* import: whenever import_repositories has returned, after one run or more
\* against the same source, the table holds as many rows as the source holds
\* distinct external_id values; a run after the first creates no row and
\* updates one for every source row.
C24_ImportIdempotent ==
  phase = "imported" =>
    /\ Len(store) = Cardinality(DistinctIds(source))
    /\ runs >= 2 => counts.created = 0 /\ counts.updated = counts.total

\* a second run over a source of three rows with two distinct external_id
C24_Witness ==
  /\ phase = "imported" /\ runs = 2
  /\ Len(source) = 3 /\ Cardinality(DistinctIds(source)) = 2
  /\ Len(store) = 2
  /\ counts = [total |-> 3, created |-> 0, updated |-> 3]

\* the rows of page k of the source: rows (k-1)*page_size+1 .. k*page_size
PageOf(k) ==
  SelectSeq([j \in 1..Len(source) |-> [at |-> j, row |-> source[j]]],
            LAMBDA e : (k - 1) * page_size < e.at /\ e.at <= k * page_size)

\* the pages asked so far are 1, 2, ... in order, every page before the last
\* asked was full, and no more pages are asked than the source has, plus one;
\* when the call has returned the last page asked was empty or short and the
\* counters account for every source row once
ImportProgress ==
  /\ \A k \in 1..Len(requested) : requested[k] = k
  /\ \A k \in 1..(Len(requested) - 1) : Len(PageOf(k)) = page_size
  /\ Len(requested) <= (Len(source) \div page_size) + 1
  /\ phase = "imported" =>
       /\ requested # <<>>
       /\ Len(PageOf(Len(requested))) < page_size
       /\ counts.total = Len(source)
       /\ counts.created + counts.updated = counts.total
       /\ DistinctIds(store) = DistinctIds(source)

=============================================================================
